---- MODULE Spec2Model ----
(***************************************************************************)
(* Model of the binrec trace capture plugins:                              *)
(*   Export      (src/binrec_plugins/Export.cpp)      block capture,       *)
(*               regeneration / finalization, successor graph              *)
(*   FunctionLog (src/binrec_plugins/FunctionLog.cpp) call tracking,       *)
(*               fork / switch snapshots of the trace state                *)
(* Both plugins share the TraceInfo singleton `ti`.                        *)
(***************************************************************************)
EXTENDS Integers, Sequences, FiniteSets, TLC

\* ------------------------------------------------------------------ bounds
NumAddrs == 2
MaxBlockLen == 4
MaxAllocas == 1
MaxTbs == 2
MaxPath == 2
MaxLoads == 2
MaxStack == 3
MaxStepsExport == 4
MaxStepsCalls == 7
MaxStepsReturns == 9
MaxSteps == 4
MaxStepsPaths == 6
MaxStepsResume == 5
MaxStepsCheckpoint == 3
MaxInterval == 2

\* Addresses are those of a 32-bit guest: every pc is below 2^32, so the uint32_t
\* members of FunctionLog (FunctionLog.h:60-64) hold the uint64_t pc unchanged.
NULL == 0
\* the null Function pointer and the null S2ETranslationBlock pointer
NoFunc == <<>>
NoTb == <<>>
Addrs == 1 .. NumAddrs
Paths == 0 .. MaxPath
\* the TranslationBlock objects the engine may hand out for an address
TbIds == Addrs \X (1 .. MaxTbs)

\* ------------------------------------------------- LLVM functions (values)
\* An instruction is an alloca, a call of helper_raise_exception, or anything
\* else; a basic block ends in a terminator (never an alloca nor a call).
Instrs == {"alloca", "call_exc", "other"}

RECURSIVE SeqsOf(_, _)
SeqsOf(S, n) ==
    IF n = 0 THEN {<<>>}
    ELSE LET shorter == SeqsOf(S, n - 1) IN
         shorter \cup {Append(s, x) : s \in {t \in shorter : Len(t) = n - 1}, x \in S}

\* a run of allocas, then calls and other instructions, then the terminator
Blocks == {pre \o body \o <<"other">> :
             pre \in SeqsOf({"alloca"}, MaxAllocas),
             body \in SeqsOf({"call_exc", "other"}, MaxBlockLen - 1)}

\* leading blocks used for multi-block functions
LeadBlocks == {<<"call_exc", "other">>, <<"other", "other", "other">>}

\* every function the generator may produce in the regeneration specification
Funcs == {<<b>> : b \in Blocks} \cup {<<l, b>> : l \in LeadBlocks, b \in Blocks}

\* the functions the generator produces in the interleaving specifications
ShapeValid3 == <<<<"alloca", "other", "other", "other">>>>
ShapeExc3 == <<<<"other", "call_exc", "other">>>>
ShapeValid4 == <<<<"other", "other", "other", "other">>>>
Shapes == {ShapeValid3, ShapeExc3, ShapeValid4}

\* Export.cpp:254-259  index (1-based) of the first non-alloca instruction
RECURSIVE skipAllocasFrom(_, _)
skipAllocasFrom(block, i) ==
    IF i <= Len(block) /\ block[i] = "alloca" THEN skipAllocasFrom(block, i + 1) ELSE i

skipAllocas(block) == skipAllocasFrom(block, 1)

\* Export.cpp:262-271
isFuncCallAndValid(i) == i # "call_exc"

\* Export.cpp:330-339  advance an iterator by size, or not at all when size < 0
skipInst(it, size) == IF size < 0 THEN it ELSE it + size

\* Export.cpp:340-349  iterator of the block reached after skipping size blocks
skipBB(it, size) == it + size

\* Export.cpp:379-393 (and 394-411 for b): one pass over the blocks from the
\* last one on; yields the instruction sum and whether an exception call was met
RECURSIVE scanBlocks(_, _, _, _)
scanBlocks(f, blk, sum, valid) ==
    IF blk > Len(f) THEN [sum |-> sum, valid |-> valid]
    ELSE LET insta == skipAllocas(f[blk])
             dist == Len(f[blk]) + 1 - insta
             from == skipInst(insta, dist - 3)
             ok == \A k \in from .. Len(f[blk]) : isFuncCallAndValid(f[blk][k])
         IN scanBlocks(f, blk + 1, sum + dist, valid /\ ok)

\* Export.cpp:352-438  returns the bool and the two out-parameters; the third
\* loop (418-435) scans b once more and is only reached when the early return
\* at 414-417 is not taken
areBBsEqual(a, b, aIsValid, bIsValid) ==
    LET sa == scanBlocks(a, skipBB(1, Len(a) - 1), 0, aIsValid)
        sb == scanBlocks(b, skipBB(1, Len(b) - 1), 0, bIsValid)
        diff == sa.sum - sb.sum
        sb2 == scanBlocks(b, skipBB(1, Len(b) - 1), sb.sum, sb.valid)
    IN IF sa.valid /\ sb.valid /\ diff # 0
       THEN [ret |-> FALSE, aIsValid |-> sa.valid, bIsValid |-> sb.valid]
       ELSE [ret |-> TRUE, aIsValid |-> sa.valid, bIsValid |-> sb2.valid]

\* ------------------------------------------------------------------ state
VARIABLES
    \* Export (Export.cpp:34-41 and the members it uses)
    m_bbCounts,          \* map pc -> number of passes
    m_bbFinalized,       \* map pc -> bool
    m_tbs,               \* map pc -> the S2ETranslationBlock pinned for it
    llvm_function,       \* per TranslationBlock: tb->llvm_function (NULL or a function)
    translationBlock,    \* per TranslationBlock: tb->se_tb->translationBlock
    erased,              \* per TranslationBlock: se_tb->translationBlock was erased from its module
    m_regenerateBlocks,
    m_exportCounter,
    m_exportInterval,
    m_module,
    moduleFiles,         \* tags of the captured[_id].bc files written
    \* TraceInfo singleton shared by both plugins
    ti,
    \* FunctionLog (FunctionLog.h:58-71)
    m_callStack,
    m_executedBBPc,
    m_callerPc,
    m_moduleEntryPoint,
    m_modulePcs,
    m_saveCounter,
    m_saveInterval,
    m_tracesByState,
    m_stacksByState,
    m_execPcByState,
    m_callerPcByState,
    callConnections,     \* how often onFunctionCall is connected to onCall
    traceFiles,          \* map tag -> TraceInfo written to traceInfo[_id].json
    \* the execution engine
    curState,            \* id of the live path
    armed,               \* per path: the return signals armed, a bag of <<caller, callee>>
    failed,              \* the process ended in a fatal error
    forkedAt,            \* per path id: the live state at the last fork that named it
    freshForks,          \* the ids named by the last fork, while only block, call, return
                         \* and successor events have followed it
    steps,               \* remaining budget of operations
    last                 \* the last operation, its arguments and its result

exportVars == <<m_bbCounts, m_bbFinalized, m_tbs, llvm_function, translationBlock, erased,
                m_regenerateBlocks, m_exportCounter, m_exportInterval, m_module, moduleFiles>>
liveLogVars == <<m_callStack, m_executedBBPc, m_callerPc>>
configVars == <<m_moduleEntryPoint, m_saveInterval, callConnections>>
snapshotVars == <<m_tracesByState, m_stacksByState, m_execPcByState, m_callerPcByState>>
vars == <<exportVars, ti, liveLogVars, m_modulePcs, m_saveCounter, configVars, snapshotVars,
          traceFiles, curState, armed, failed, forkedAt, freshForks, steps, last>>

\* ----------------------------------------------------------- std::map helpers
EmptyMap == [x \in {} |-> NULL]
Has(m, k) == k \in DOMAIN m
MapPut(m, k, v) == [x \in DOMAIN m \cup {k} |-> IF x = k THEN v ELSE m[x]]
\* std::map::emplace: inserts only when the key is absent
Emplace(m, k, v) == IF Has(m, k) THEN m ELSE MapPut(m, k, v)
Erase(m, k) == [x \in DOMAIN m \ {k} |-> m[x]]

\* the record of an operation; unused fields keep their defaults
NoOp == [op |-> "none", kind |-> "", a |-> NULL, b |-> NULL, c |-> NULL, ret |-> FALSE,
         oldF |-> <<>>, newF |-> <<>>, equal |-> FALSE, pre |-> <<>>]

\* ------------------------------------------------------------ TraceInfo
\* FunctionLog.cpp:45  the trace starts with the entries sentinel only
InitTi == [successors |-> {}, entries |-> <<0>>, entryToTbs |-> {},
           entryToCaller |-> {}, entryToReturn |-> {}, callerToFollowUp |-> {}]

\* ------------------------------------------------------------ Export
\* Export.cpp:504-508
getBB(pc) == IF Has(m_tbs, pc) THEN translationBlock[m_tbs[pc]] ELSE NoFunc

\* Export.cpp:103-104
npassedOf(pc) == IF Has(m_bbCounts, pc) THEN m_bbCounts[pc] ELSE 0

needsRegen_IgnoreFinalized(pc) == m_regenerateBlocks

needsRegen_IgnoreSwitch(pc) == ~m_bbFinalized[pc]

\* Export.cpp:118  the condition of the regeneration branch
needsRegen(pc) == m_regenerateBlocks /\ ~m_bbFinalized[pc]

regenOutcome_NoValidity(oldIsValid, newIsValid, equal) ==
    IF equal THEN "finalize" ELSE "promote"

\* Export.cpp:459-480  what regenCode does with the comparison
regenOutcome(oldIsValid, newIsValid, equal) ==
    IF oldIsValid /\ newIsValid /\ equal THEN "finalize"
    ELSE IF oldIsValid /\ ~newIsValid THEN "keepOld"
    ELSE "promote"

\* Export.cpp:149-152 with 162-169  the checkpoint of a successful export
Checkpoint ==
    IF m_exportInterval # 0
    THEN /\ m_exportCounter' = m_exportCounter + 1
         /\ moduleFiles' = IF (m_exportCounter + 1) % m_exportInterval = 0
                           THEN moduleFiles \cup {curState} ELSE moduleFiles
    ELSE UNCHANGED <<m_exportCounter, moduleFiles>>

\* Export.cpp:124-154  the part of exportBB after se_tb is known
exportTail(pc, se_tb, info) ==
    IF se_tb = NoTb
    THEN /\ UNCHANGED <<m_tbs, m_module, m_exportCounter, moduleFiles>>
         /\ last' = [info EXCEPT !.ret = FALSE]
    ELSE /\ m_tbs' = Emplace(m_tbs, pc, se_tb)
         /\ m_module' = "M"
         /\ Checkpoint
         /\ last' = [info EXCEPT !.ret = TRUE]

\* a fatal error (failed assertion, fault of an undefined access) inside exportBB
exportFault(pc, kind) ==
    /\ failed' = TRUE
    /\ last' = [NoOp EXCEPT !.op = "capture", !.kind = kind, !.a = pc]
    /\ UNCHANGED <<exportVars, ti>>

firstCount_IgnoresSwitch == IF m_regenerateBlocks THEN 1 ELSE 1

\* Export.cpp:115  the count a first capture stores
firstCount == IF m_regenerateBlocks THEN 1 ELSE 2

\* Export.cpp:109-116 with forceCodeGen 219-251 and cpu_gen_llvm 92-99.
\* A generator that yields nothing fails the assertion at 225 (or faults in
\* getFirstStoredPc); a build that lets the call return yields se_tb = nullptr.
exportFirst(pc, tb, gen) ==
    LET info == [NoOp EXCEPT !.op = "capture", !.kind = "first", !.a = pc, !.newF = gen] IN
    \/ /\ gen = NoFunc
       /\ exportFault(pc, "first")
    \/ /\ m_bbCounts' = MapPut(m_bbCounts, pc, firstCount)
       /\ m_bbFinalized' = MapPut(m_bbFinalized, pc, FALSE)
       /\ IF gen = NoFunc
          THEN UNCHANGED <<llvm_function, translationBlock, erased>>
          ELSE /\ llvm_function' = [llvm_function EXCEPT ![tb] = gen]
               /\ translationBlock' = [translationBlock EXCEPT ![tb] = gen]
               /\ erased' = [erased EXCEPT ![tb] = FALSE]
       /\ exportTail(pc, IF gen = NoFunc THEN NoTb ELSE tb, info)
       /\ UNCHANGED <<m_regenerateBlocks, m_exportInterval, ti, failed>>

regenCount_OnlyOnPromote(npassed, outcome) ==
    IF outcome = "promote" THEN npassed + 1 ELSE npassed

\* Export.cpp:121  the count after regenCode has returned, whatever it returned
regenCount(npassed, outcome) == npassed + 1

\* Export.cpp:118-122 with regenCode 445-502.  old is getBB(pc), read before the
\* generator overwrites se_tb->translationBlock of the live TranslationBlock.
\* oldRead is what the comparison reads through old: the function itself, or,
\* when old was erased before (a dangling pointer), whatever the memory holds.
exportRegenWith(pc, tb, gen, oldRead, dangling) ==
    LET cmp == areBBsEqual(gen, oldRead, TRUE, TRUE)
        outcome == regenOutcome(cmp.bIsValid, cmp.aIsValid, cmp.ret)
        stored == m_tbs[pc]
        info == [NoOp EXCEPT !.op = "capture", !.kind = outcome, !.a = pc,
                             !.oldF = oldRead, !.newF = gen, !.equal = cmp.ret,
                             !.pre = IF dangling THEN <<"dangling">> ELSE <<>>]
    IN
    /\ m_bbCounts' = [m_bbCounts EXCEPT ![pc] = regenCount(@, outcome)]
    /\ translationBlock' = [translationBlock EXCEPT ![tb] = gen]
    /\ llvm_function' = [llvm_function EXCEPT ![tb] = IF outcome = "promote" THEN gen ELSE NoFunc]
    /\ m_bbFinalized' = IF outcome = "finalize"
                        THEN [m_bbFinalized EXCEPT ![pc] = TRUE] ELSE m_bbFinalized
    /\ erased' = [t \in TbIds |->
                    IF t = tb THEN FALSE
                    ELSE IF t = stored /\ outcome = "promote" THEN TRUE
                    ELSE erased[t]]
    /\ exportTail(pc, IF outcome = "promote" THEN tb ELSE NoFunc, info)
    /\ UNCHANGED <<m_regenerateBlocks, m_exportInterval, ti, failed>>

exportRegen(pc, tb, gen) ==
    IF gen = NoFunc \/ ~Has(m_tbs, pc)
    THEN \* areBBsEqual dereferences a null function
         exportFault(pc, "regen")
    ELSE IF erased[m_tbs[pc]]
    THEN \* old dangles: the access faults, or reads some function-shaped memory
         \/ exportFault(pc, "regen")
         \/ \E g \in Shapes : exportRegenWith(pc, tb, gen, g, TRUE)
    ELSE exportRegenWith(pc, tb, gen, getBB(pc), FALSE)

exportHit_CountsPass(pc) ==
    /\ exportTail(pc, NoTb, [NoOp EXCEPT !.op = "capture", !.kind = "hit", !.a = pc])
    /\ m_bbCounts' = [m_bbCounts EXCEPT ![pc] = @ + 1]
    /\ UNCHANGED <<m_bbFinalized, llvm_function, translationBlock, erased,
                   m_regenerateBlocks, m_exportInterval, ti, failed>>

\* Export.cpp:118-127  neither branch taken: se_tb stays nullptr
exportHit(pc) ==
    /\ exportTail(pc, NoTb, [NoOp EXCEPT !.op = "capture", !.kind = "hit", !.a = pc])
    /\ UNCHANGED <<m_bbCounts, m_bbFinalized, llvm_function, translationBlock, erased,
                   m_regenerateBlocks, m_exportInterval, ti, failed>>

\* Export.cpp:101-155  tb is state->getTb(), gen what the code generator yields
exportBB(pc, tb, gen) ==
    /\ ~failed
    /\ steps > 0
    /\ steps' = steps - 1
    /\ IF npassedOf(pc) = 0 THEN exportFirst(pc, tb, gen)
       ELSE IF needsRegen(pc) THEN exportRegen(pc, tb, gen)
       ELSE exportHit(pc)
    /\ UNCHANGED <<liveLogVars, m_modulePcs, m_saveCounter, configVars, snapshotVars,
                   traceFiles, curState, armed, forkedAt>>
    /\ freshForks' = {}

addSuccessorGuard_NoBlockCheck(predPc, pc) == predPc # 0

addSuccessorGuard_NoPredCheck(predPc, pc) == getBB(pc) # NoFunc

\* Export.cpp:512  the guard of addSuccessor
addSuccessorGuard(predPc, pc) == predPc # 0 /\ getBB(pc) # NoFunc

\* Export.cpp:510-520
addSuccessor(predPc, pc) ==
    /\ ~failed
    /\ steps > 0
    /\ steps' = steps - 1
    /\ IF addSuccessorGuard(predPc, pc)
       THEN /\ ti' = [ti EXCEPT !.successors = @ \cup {<<predPc, pc>>}]
            /\ last' = [NoOp EXCEPT !.op = "addSuccessor", !.a = predPc, !.b = pc, !.ret = TRUE,
                                    !.kind = IF <<predPc, pc>> \in ti.successors
                                             THEN "again" ELSE "new"]
       ELSE /\ UNCHANGED ti
            /\ last' = [NoOp EXCEPT !.op = "addSuccessor", !.a = predPc, !.b = pc, !.ret = FALSE]
    /\ UNCHANGED <<exportVars, liveLogVars, m_modulePcs, m_saveCounter, configVars,
                   snapshotVars, traceFiles, curState, armed, failed, forkedAt, freshForks>>

\* Export.cpp:528-532
stopRegeneratingBlocks ==
    /\ ~failed
    /\ steps > 0
    /\ steps' = steps - 1
    /\ m_regenerateBlocks' = FALSE
    /\ last' = [NoOp EXCEPT !.op = "stopRegenerating"]
    /\ UNCHANGED <<m_bbCounts, m_bbFinalized, m_tbs, llvm_function, translationBlock, erased,
                   m_exportCounter, m_exportInterval, m_module, moduleFiles, ti, liveLogVars,
                   m_modulePcs, m_saveCounter, configVars, snapshotVars, traceFiles,
                   curState, armed, failed, forkedAt>>
    /\ freshForks' = {}

\* ------------------------------------------------------------ FunctionLog
\* the entry point of the monitored module, as ModuleSelector reports it
ModuleEntries == {1}
\* the (source, dest) module descriptors of a call, by entry point; NULL is no module
CallEnds == {<<NULL, NULL>>, <<1, 2>>, <<2, 1>>, <<2, 2>>}

Top(stack) == stack[Len(stack)]
Pop(stack) == SubSeq(stack, 1, Len(stack) - 1)
RECURSIVE PushN(_, _, _)
PushN(stack, x, n) == IF n = 0 THEN stack ELSE PushN(Append(stack, x), x, n - 1)

NoArmed == [p \in Addrs \X Addrs |-> 0]

\* FunctionLog.cpp:57-73  traceInfo[_stateNum].json is truncated and rewritten
saveTraceInfo(files, stateNum, info) == MapPut(files, stateNum, info)

\* FunctionLog.cpp:76-81
slotModuleLoad(entryPoint) ==
    /\ ~failed
    /\ steps > 0
    /\ steps' = steps - 1
    /\ callConnections < MaxLoads
    /\ callConnections' = callConnections + 1
    /\ m_moduleEntryPoint' = entryPoint
    /\ last' = [NoOp EXCEPT !.op = "moduleLoad", !.a = entryPoint]
    /\ UNCHANGED <<exportVars, ti, liveLogVars, m_modulePcs, m_saveCounter, m_saveInterval,
                   snapshotVars, traceFiles, curState, armed, failed, forkedAt>>
    /\ freshForks' = {}

sentinelActive_Always(entries) == TRUE

\* FunctionLog.cpp:85  the sentinel test of slotModuleExecute
sentinelActive(entries) == entries[Len(entries)] = 0

blockAttributed_Never(stack) == FALSE

\* FunctionLog.cpp:97  a block is attributed only while the call stack has a frame
blockAttributed(stack) == stack # <<>>

followUpDue_IgnoresStack(stack, callerPc) == callerPc # 0

\* FunctionLog.cpp:97-102  the follow-up of a return is recorded inside the
\* branch of the non-empty call stack
followUpDue(stack, callerPc) == stack # <<>> /\ callerPc # 0

\* FunctionLog.cpp:83-113
slotModuleExecute(pc) ==
    LET newEntry == sentinelActive(ti.entries)
        entries1 == IF newEntry
                    THEN [ti.entries EXCEPT ![Len(ti.entries)] = pc]
                    ELSE ti.entries
        stack1 == IF newEntry THEN Append(m_callStack, pc) ELSE m_callStack
        attributed == blockAttributed(stack1)
        ti1 == [ti EXCEPT
                  !.entries = entries1,
                  !.entryToTbs = IF attributed THEN @ \cup {<<Top(stack1), pc>>} ELSE @,
                  !.callerToFollowUp = IF followUpDue(stack1, m_callerPc)
                                       THEN @ \cup {<<m_callerPc, pc>>} ELSE @]
        saves == m_saveInterval # 0 /\ (m_saveCounter + 1) % m_saveInterval = 0
    IN
    /\ ~failed
    /\ steps > 0
    /\ steps' = steps - 1
    /\ Len(stack1) <= MaxStack
    /\ ti' = ti1
    /\ m_callStack' = stack1
    /\ m_modulePcs' = m_modulePcs \cup {pc}
    /\ m_executedBBPc' = pc
    /\ m_callerPc' = IF stack1 # <<>> THEN 0 ELSE m_callerPc
    /\ m_saveCounter' = IF m_saveInterval # 0 THEN m_saveCounter + 1 ELSE m_saveCounter
    /\ traceFiles' = IF saves THEN saveTraceInfo(traceFiles, curState, ti1) ELSE traceFiles
    /\ last' = [NoOp EXCEPT !.op = "execute", !.a = pc,
                            !.kind = IF newEntry THEN "entry" ELSE "block",
                            !.pre = m_callStack]
    /\ UNCHANGED <<exportVars, configVars, snapshotVars, curState, armed, failed, forkedAt, freshForks>>

\* FunctionLog.cpp:129-130  the filter of onFunctionCall
isTracked(source, dest) ==
    (source # NULL /\ source = m_moduleEntryPoint) \/ (dest # NULL /\ dest = m_moduleEntryPoint)

\* FunctionLog.cpp:115-138, run once per connection made by slotModuleLoad (line 79)
onFunctionCall(source, dest, callerPc, calleePc) ==
    LET n == IF isTracked(source, dest) THEN callConnections ELSE 0 IN
    /\ ~failed
    /\ steps > 0
    /\ steps' = steps - 1
    /\ callConnections > 0
    /\ Len(m_callStack) + n <= MaxStack
    /\ m_callStack' = PushN(m_callStack, calleePc, n)
    /\ armed' = [armed EXCEPT ![curState] =
                    [@ EXCEPT ![<<callerPc, calleePc>>] = @ + n]]
    /\ last' = [NoOp EXCEPT !.op = "call", !.a = callerPc, !.b = calleePc,
                            !.kind = IF n > 0 THEN "tracked" ELSE "untracked",
                            !.pre = m_callStack]
    /\ UNCHANGED <<exportVars, ti, m_executedBBPc, m_callerPc, m_modulePcs, m_saveCounter,
                   configVars, snapshotVars, traceFiles, curState, failed, forkedAt, freshForks>>

recordReturn_UsesReturnSite(stack, returnSite, func_caller, func_begin, kind) ==
    /\ m_callStack' = stack
    /\ ti' = [ti EXCEPT
                !.entries = IF func_begin = Top(ti.entries) THEN Append(@, 0) ELSE @,
                !.entryToCaller = @ \cup {<<func_begin, func_caller>>},
                !.entryToReturn = @ \cup {<<func_begin, returnSite>>}]
    /\ m_callerPc' = func_caller
    /\ last' = [NoOp EXCEPT !.op = "return", !.a = func_caller, !.b = func_begin,
                            !.c = returnSite, !.kind = kind, !.pre = m_callStack]
    /\ UNCHANGED failed

recordReturn_AlwaysSentinel(stack, returnSite, func_caller, func_begin, kind) ==
    /\ m_callStack' = stack
    /\ ti' = [ti EXCEPT
                !.entries = Append(@, 0),
                !.entryToCaller = @ \cup {<<func_begin, func_caller>>},
                !.entryToReturn = @ \cup {<<func_begin, m_executedBBPc>>}]
    /\ m_callerPc' = func_caller
    /\ last' = [NoOp EXCEPT !.op = "return", !.a = func_caller, !.b = func_begin,
                            !.c = returnSite, !.kind = kind, !.pre = m_callStack]
    /\ UNCHANGED failed

recordReturn_NeverSentinel(stack, returnSite, func_caller, func_begin, kind) ==
    /\ m_callStack' = stack
    /\ ti' = [ti EXCEPT
                !.entryToCaller = @ \cup {<<func_begin, func_caller>>},
                !.entryToReturn = @ \cup {<<func_begin, m_executedBBPc>>}]
    /\ m_callerPc' = func_caller
    /\ last' = [NoOp EXCEPT !.op = "return", !.a = func_caller, !.b = func_begin,
                            !.c = returnSite, !.kind = kind, !.pre = m_callStack]
    /\ UNCHANGED failed

recordReturn_KeepsPending(stack, returnSite, func_caller, func_begin, kind) ==
    /\ m_callStack' = stack
    /\ ti' = [ti EXCEPT
                !.entries = IF func_begin = Top(ti.entries) THEN Append(@, 0) ELSE @,
                !.entryToCaller = @ \cup {<<func_begin, func_caller>>},
                !.entryToReturn = @ \cup {<<func_begin, m_executedBBPc>>}]
    /\ m_callerPc' = IF m_callerPc # 0 THEN m_callerPc ELSE func_caller
    /\ last' = [NoOp EXCEPT !.op = "return", !.a = func_caller, !.b = func_begin,
                            !.c = returnSite, !.kind = kind, !.pre = m_callStack]
    /\ UNCHANGED failed

\* FunctionLog.cpp:186-207  the part of onFunctionReturn that records the return
recordReturn(stack, returnSite, func_caller, func_begin, kind) ==
    /\ m_callStack' = stack
    /\ ti' = [ti EXCEPT
                !.entries = IF func_begin = Top(ti.entries) THEN Append(@, 0) ELSE @,
                !.entryToCaller = @ \cup {<<func_begin, func_caller>>},
                !.entryToReturn = @ \cup {<<func_begin, m_executedBBPc>>}]
    /\ m_callerPc' = func_caller
    /\ last' = [NoOp EXCEPT !.op = "return", !.a = func_caller, !.b = func_begin,
                            !.c = returnSite, !.kind = kind, !.pre = m_callStack]
    /\ UNCHANGED failed

\* FunctionLog.cpp:159-169 and on: the popped frame is pushed back, and, there
\* being no return statement in this branch, control reaches line 186
returnMismatchEmpty(top, returnSite, func_caller, func_begin) ==
    recordReturn(<<top>>, returnSite, func_caller, func_begin, "restoredEmpty")

returnAborted_DropsFrame(top, rest, returnSite, func_caller, func_begin) ==
    /\ m_callStack' = rest
    /\ last' = [NoOp EXCEPT !.op = "return", !.a = func_caller, !.b = func_begin,
                            !.c = returnSite, !.kind = "aborted", !.pre = m_callStack]
    /\ UNCHANGED <<ti, m_callerPc, failed>>

\* FunctionLog.cpp:170-180  neither the popped frame nor the one below it is
\* the callee: the popped frame is pushed back and the handler returns
returnAborted(top, rest, returnSite, func_caller, func_begin) ==
    /\ m_callStack' = Append(rest, top)
    /\ last' = [NoOp EXCEPT !.op = "return", !.a = func_caller, !.b = func_begin,
                            !.c = returnSite, !.kind = "aborted", !.pre = m_callStack]
    /\ UNCHANGED <<ti, m_callerPc, failed>>

returnRecovered_NoExtraPop(rest, returnSite, func_caller, func_begin) ==
    recordReturn(rest, returnSite, func_caller, func_begin, "recovered")

\* FunctionLog.cpp:181-183 and on: the frame below the popped one is the
\* callee, it is popped too and the return is recorded
returnRecovered(rest, returnSite, func_caller, func_begin) ==
    recordReturn(Pop(rest), returnSite, func_caller, func_begin, "recovered")

\* FunctionLog.cpp:140-208  one armed return signal of the live path fires
onFunctionReturn(returnSite, func_caller, func_begin) ==
    /\ ~failed
    /\ steps > 0
    /\ steps' = steps - 1
    /\ armed[curState][<<func_caller, func_begin>>] > 0
    /\ armed' = [armed EXCEPT ![curState] =
                    [@ EXCEPT ![<<func_caller, func_begin>>] = @ - 1]]
    /\ IF m_callStack = <<>>
       THEN \* top() and pop() of an empty std::stack are undefined: the access
            \* faults, or yields some value and leaves the stack empty
            \/ /\ failed' = TRUE
               /\ last' = [NoOp EXCEPT !.op = "return", !.a = func_caller, !.b = func_begin,
                                       !.kind = "fault", !.pre = m_callStack]
               /\ UNCHANGED <<ti, liveLogVars>>
            \/ \E garbage \in {0} \cup Addrs :
                 /\ IF garbage # func_begin
                    THEN recordReturn(<<garbage>>, returnSite, func_caller, func_begin,
                                      "underflow")
                    ELSE recordReturn(<<>>, returnSite, func_caller, func_begin, "underflow")
                 /\ UNCHANGED m_executedBBPc
       ELSE LET top == Top(m_callStack)
                rest == Pop(m_callStack)
            IN /\ IF top = func_begin
                  THEN recordReturn(rest, returnSite, func_caller, func_begin, "normal")
                  ELSE IF rest = <<>>
                  THEN returnMismatchEmpty(top, returnSite, func_caller, func_begin)
                  ELSE IF func_begin # Top(rest)
                  THEN returnAborted(top, rest, returnSite, func_caller, func_begin)
                  ELSE returnRecovered(rest, returnSite, func_caller, func_begin)
               /\ UNCHANGED m_executedBBPc
    /\ UNCHANGED <<exportVars, m_modulePcs, m_saveCounter, configVars, snapshotVars,
                   traceFiles, curState, forkedAt, freshForks>>

\* ------------------------------------------------------------ fork and switch
\* the live TraceLog and PathState (spec section 3)
LiveState == [ti |-> ti, callStack |-> m_callStack, executedBlockPc |-> m_executedBBPc,
              pendingCallerPc |-> m_callerPc, moduleEntryPoint |-> m_moduleEntryPoint,
              visitedAddresses |-> m_modulePcs]

\* TraceInfo::getCopy (binrec/tracing/trace_info.hpp): an independent deep copy
getCopy(info) == info
\* TraceInfo::restoreFromCopy: every field is replaced by the copy's
restoreFromCopy(copy) == copy

RECURSIVE EmplaceAll(_, _, _)
EmplaceAll(m, keys, v) ==
    IF keys = {} THEN m
    ELSE LET k == CHOOSE x \in keys : TRUE IN EmplaceAll(Emplace(m, k, v), keys \ {k}, v)

\* FunctionLog.cpp:216-229  one emplace per new state into a snapshot map
storeSnapshots(m, keys, v) == EmplaceAll(m, keys, v)

storeScalars_SkipsZero(m, keys, v) == IF v = 0 THEN m ELSE EmplaceAll(m, keys, v)

\* FunctionLog.cpp:227-228  the two scalars are stored for every new state,
\* whatever their value
storeScalars(m, keys, v) == EmplaceAll(m, keys, v)

\* FunctionLog.cpp:210-230.  The engine gives every new path the armed return
\* signals of the path that forked.
slotStateFork(newStates) ==
    /\ ~failed
    /\ steps > 0
    /\ steps' = steps - 1
    /\ m_tracesByState' = storeSnapshots(m_tracesByState, newStates, getCopy(ti))
    /\ m_stacksByState' = storeSnapshots(m_stacksByState, newStates, m_callStack)
    /\ m_execPcByState' = storeScalars(m_execPcByState, newStates, m_executedBBPc)
    /\ m_callerPcByState' = storeScalars(m_callerPcByState, newStates, m_callerPc)
    /\ armed' = [p \in DOMAIN armed \cup newStates |->
                    IF p \in DOMAIN armed THEN armed[p] ELSE armed[curState]]
    /\ forkedAt' = [p \in DOMAIN forkedAt \cup newStates |->
                       IF p \in newStates THEN LiveState ELSE forkedAt[p]]
    /\ freshForks' = newStates
    /\ last' = [NoOp EXCEPT !.op = "fork", !.a = curState, !.pre = newStates]
    /\ UNCHANGED <<exportVars, ti, liveLogVars, m_modulePcs, m_saveCounter, configVars,
                   traceFiles, curState, failed>>

releaseSnapshots_KeepsOutgoing(m, curStateID, newStateID) == Erase(m, newStateID)

\* FunctionLog.cpp:254-268  the entry just restored and the entry of the
\* outgoing path, if there is one, leave the map
releaseSnapshots(m, curStateID, newStateID) == Erase(Erase(m, newStateID), curStateID)

switchPersisted_AfterRestore(before, after) == after

\* FunctionLog.cpp:238  what the switch writes for the outgoing path: the live
\* TraceInfo as it is when saveTraceInfo runs, before line 247 replaces it
switchPersisted(before, after) == before

switchFault_Ignored(curStateID, newStateID) ==
    /\ last' = [NoOp EXCEPT !.op = "switch", !.a = curStateID, !.b = newStateID,
                            !.kind = "fault"]
    /\ UNCHANGED <<ti, liveLogVars, snapshotVars, curState, failed>>

\* FunctionLog.cpp:243-246  no snapshot for the new path: the assertion fails
\* (without assertions, at() throws and nothing catches it)
switchFault(curStateID, newStateID) ==
    /\ failed' = TRUE
    /\ last' = [NoOp EXCEPT !.op = "switch", !.a = curStateID, !.b = newStateID,
                            !.kind = "fault"]
    /\ UNCHANGED <<ti, liveLogVars, snapshotVars, curState>>

\* FunctionLog.cpp:232-269
slotStateSwitch(curStateID, newStateID) ==
    /\ ~failed
    /\ steps > 0
    /\ steps' = steps - 1
    /\ IF ~Has(m_tracesByState, newStateID)
       THEN switchFault(curStateID, newStateID)
       ELSE /\ ti' = restoreFromCopy(m_tracesByState[newStateID])
            /\ m_callStack' = m_stacksByState[newStateID]
            /\ m_executedBBPc' = m_execPcByState[newStateID]
            /\ m_callerPc' = m_callerPcByState[newStateID]
            /\ m_tracesByState' = releaseSnapshots(m_tracesByState, curStateID, newStateID)
            /\ m_stacksByState' = releaseSnapshots(m_stacksByState, curStateID, newStateID)
            /\ m_execPcByState' = releaseSnapshots(m_execPcByState, curStateID, newStateID)
            /\ m_callerPcByState' = releaseSnapshots(m_callerPcByState, curStateID, newStateID)
            /\ curState' = newStateID
            /\ last' = [NoOp EXCEPT !.op = "switch", !.a = curStateID, !.b = newStateID,
                                    !.kind = "restored", !.pre = DOMAIN m_tracesByState]
            /\ UNCHANGED failed
    /\ traceFiles' = saveTraceInfo(traceFiles, curStateID, switchPersisted(ti, ti'))
    /\ UNCHANGED <<exportVars, m_modulePcs, m_saveCounter, configVars, armed, forkedAt>>
    /\ freshForks' = {}

\* FunctionLog.cpp:48-55  the destructor drops a trailing sentinel and writes
\* the untagged traceInfo.json; it touches no snapshot map, and the TraceInfo
\* copies the maps point to are neither written nor deleted.  No event is
\* delivered to a destroyed plugin.
teardown ==
    LET final == [ti EXCEPT !.entries = IF sentinelActive(@) THEN Pop(@) ELSE @] IN
    /\ ~failed
    /\ steps > 0
    /\ steps' = 0
    /\ ti' = final
    /\ traceFiles' = saveTraceInfo(traceFiles, -1, final)
    /\ last' = [NoOp EXCEPT !.op = "teardown", !.pre = DOMAIN m_tracesByState]
    /\ UNCHANGED <<exportVars, liveLogVars, m_modulePcs, m_saveCounter, configVars,
                   snapshotVars, curState, armed, failed, forkedAt, freshForks>>

\* ------------------------------------------------------------ the engine's events
\* the code generator yields a function of pool, or nothing
Capture(pool) ==
    \E pc \in Addrs, k \in 1 .. MaxTbs, gen \in pool \cup {NoFunc} : exportBB(pc, <<pc, k>>, gen)

CaptureShape == Capture(Shapes)

CaptureAny == Capture(Funcs)

AddSuccessor == \E predPc \in {0} \cup Addrs, pc \in Addrs : addSuccessor(predPc, pc)

StopRegenerating == stopRegeneratingBlocks

ModuleLoad == \E entryPoint \in ModuleEntries : slotModuleLoad(entryPoint)

Execute == \E pc \in Addrs : slotModuleExecute(pc)

Call ==
    \E ends \in CallEnds, callerPc \in Addrs, calleePc \in Addrs :
        onFunctionCall(ends[1], ends[2], callerPc, calleePc)

Return ==
    \E returnSite \in Addrs, func_caller \in Addrs, func_begin \in Addrs :
        onFunctionReturn(returnSite, func_caller, func_begin)

\* the engine numbers new paths consecutively; the forking path itself may be
\* among the new states it reports
Fork ==
    \E n \in 1 .. MaxPath, withParent \in BOOLEAN :
        LET first == Cardinality(DOMAIN armed)
            fresh == first .. (first + n - 1)
        IN /\ fresh \subseteq Paths
           /\ slotStateFork(fresh \cup (IF withParent THEN {curState} ELSE {}))

\* slotStateFork takes whatever states the engine hands it: here any paths,
\* suspended ones included
ForkAny == \E newStates \in (SUBSET Paths) \ {{}} : slotStateFork(newStates)

Switch == \E to \in DOMAIN armed \ {curState} : slotStateSwitch(curState, to)

Teardown == teardown

\* ------------------------------------------------------------ specifications
\* the state after the constructors and initialize() (Export.cpp:34-51,
\* FunctionLog.cpp:26-46); members no constructor sets hold any value
InitOf(budget, anyPc, saveIntervals, saveCounters, exportIntervals) ==
    /\ m_bbCounts = EmptyMap
    /\ m_bbFinalized = EmptyMap
    /\ m_tbs = EmptyMap
    /\ llvm_function = [t \in TbIds |-> NoFunc]
    /\ translationBlock = [t \in TbIds |-> NoFunc]
    /\ erased = [t \in TbIds |-> FALSE]
    /\ m_regenerateBlocks = TRUE
    /\ m_exportCounter = 0
    /\ m_exportInterval \in exportIntervals
    /\ m_module = "NULL"
    /\ moduleFiles = {}
    /\ ti = InitTi
    /\ m_callStack = <<>>
    /\ m_executedBBPc \in anyPc
    /\ m_callerPc = 0
    /\ m_moduleEntryPoint = 0
    /\ m_modulePcs = {}
    /\ m_saveCounter \in saveCounters
    /\ m_saveInterval \in saveIntervals
    /\ m_tracesByState = EmptyMap
    /\ m_stacksByState = EmptyMap
    /\ m_execPcByState = EmptyMap
    /\ m_callerPcByState = EmptyMap
    /\ callConnections = 0
    /\ traceFiles = EmptyMap
    /\ curState = 0
    /\ armed = [p \in {0} |-> NoArmed]
    /\ failed = FALSE
    /\ forkedAt = EmptyMap
    /\ freshForks = {}
    /\ steps = budget
    /\ last = NoOp

\* the default configuration: saveInterval 0 (FunctionLog.cpp:30), so that
\* m_saveCounter is never read, and m_exportInterval 0 (Export.cpp:39)
InitWith(budget, anyPc) == InitOf(budget, anyPc, {0}, {0}, {0})

\* every operation, interleaved
Init == InitWith(MaxSteps, {0})
Next ==
    \/ CaptureShape
    \/ AddSuccessor
    \/ StopRegenerating
    \/ ModuleLoad
    \/ Execute
    \/ Call
    \/ Return
    \/ Fork
    \/ Switch
Spec == Init /\ [][Next]_vars

\* block capture interleaved with the successor graph and with fork / switch
InitExport == InitWith(MaxStepsExport, {0})
NextExport == CaptureShape \/ AddSuccessor \/ StopRegenerating \/ Fork \/ Switch
SpecExport == InitExport /\ [][NextExport]_vars

\* call tracking across paths, up to the destruction of the plugin
InitPaths == InitWith(MaxStepsPaths, {0})
NextPaths == ModuleLoad \/ Execute \/ Call \/ Return \/ Fork \/ Switch \/ Teardown
SpecPaths == InitPaths /\ [][NextPaths]_vars

\* captures and block executions under every configuration of the two
\* intervals: saveInterval is read from the configuration (FunctionLog.cpp:30),
\* m_exportInterval is a member that the plugins deriving from Export set, and
\* m_saveCounter, which no constructor initialises, holds any value
InitCheckpoint ==
    InitOf(MaxStepsCheckpoint, {0}, 0 .. MaxInterval, 0 .. MaxInterval, 0 .. MaxInterval)
NextCheckpoint == CaptureShape \/ Execute
SpecCheckpoint == InitCheckpoint /\ [][NextCheckpoint]_vars

\* suspended paths named again by later forks, and resumed
InitResume == InitWith(MaxStepsResume, {0})
NextResume == Execute \/ ForkAny \/ Switch
SpecResume == InitResume /\ [][NextResume]_vars

\* call tracking on one path
InitCalls == InitWith(MaxStepsCalls, {0} \cup Addrs)
NextCalls == ModuleLoad \/ Execute \/ Call \/ Return
SpecCalls == InitCalls /\ [][NextCalls]_vars

\* call tracking on one path, long enough for two mismatched returns in a row
InitReturns == InitWith(MaxStepsReturns, {0})
NextReturns == ModuleLoad \/ Execute \/ Call \/ Return
SpecReturns == InitReturns /\ [][NextReturns]_vars

\* one regeneration of an address captured before with any function of Funcs:
\* the initial states are those exportBB(1, <<1, 1>>, f) leaves behind
InitRegen ==
    \E f \in Funcs :
        /\ m_bbCounts = MapPut(EmptyMap, 1, 1)
        /\ m_bbFinalized = MapPut(EmptyMap, 1, FALSE)
        /\ m_tbs = MapPut(EmptyMap, 1, <<1, 1>>)
        /\ llvm_function = [t \in TbIds |-> IF t = <<1, 1>> THEN f ELSE NoFunc]
        /\ translationBlock = [t \in TbIds |-> IF t = <<1, 1>> THEN f ELSE NoFunc]
        /\ erased = [t \in TbIds |-> FALSE]
        /\ m_regenerateBlocks = TRUE
        /\ m_exportCounter = 0
        /\ m_exportInterval = 0
        /\ m_module = "M"
        /\ moduleFiles = {}
        /\ ti = InitTi
        /\ m_callStack = <<>>
        /\ m_executedBBPc = 0
        /\ m_callerPc = 0
        /\ m_moduleEntryPoint = 0
        /\ m_modulePcs = {}
        /\ m_saveCounter = 0
        /\ m_saveInterval = 0
        /\ m_tracesByState = EmptyMap
        /\ m_stacksByState = EmptyMap
        /\ m_execPcByState = EmptyMap
        /\ m_callerPcByState = EmptyMap
        /\ callConnections = 0
        /\ traceFiles = EmptyMap
        /\ curState = 0
        /\ armed = [p \in {0} |-> NoArmed]
        /\ failed = FALSE
        /\ forkedAt = EmptyMap
        /\ freshForks = {}
        /\ steps = 1
        /\ last = [NoOp EXCEPT !.op = "capture", !.kind = "first", !.a = 1, !.newF = f,
                               !.ret = TRUE]
NextRegen == CaptureAny
SpecRegen == InitRegen /\ [][NextRegen]_vars

\* ------------------------------------------------------------ properties
\* views of the per-address capture state
Captured(a) == Has(m_tbs, a)
Finalized(a) == Has(m_bbFinalized, a) /\ m_bbFinalized[a]
FinalizedFlag(a) == IF ~Has(m_bbFinalized, a) THEN "absent"
                    ELSE IF m_bbFinalized[a] THEN "true" ELSE "false"
StoredTb(a) == IF Has(m_tbs, a) THEN m_tbs[a] ELSE NoTb
StoredDangling(a) == Has(m_tbs, a) /\ erased[m_tbs[a]]
PerAddress(a) == <<npassedOf(a), FinalizedFlag(a), StoredTb(a), getBB(a), StoredDangling(a)>>
GeneratorState == <<llvm_function, translationBlock, erased>>

\* the representation as the finalization table reads it
LastBlock(f) == f[Len(f)]
FirstReal(block) ==
    CHOOSE i \in 1 .. Len(block) :
        block[i] # "alloca" /\ \A j \in 1 .. (i - 1) : block[j] = "alloca"
PostSkipCount(f) == Len(LastBlock(f)) - FirstReal(LastBlock(f)) + 1
TrailingExc(f) ==
    \E i \in FirstReal(LastBlock(f)) .. Len(LastBlock(f)) :
        i > Len(LastBlock(f)) - 3 /\ LastBlock(f)[i] = "call_exc"
RepValid(f) == ~TrailingExc(f)
Regenerated == last.op = "capture" /\ last.kind \in {"finalize", "keepOld", "promote"}

\* C1: once finalized is latched for an address, no later operation (capture of
\* any address, stopRegenerating, addSuccessor, fork, switch) clears it or
\* changes the stored representation or its instruction count.
C1_FinalizedStable ==
    [][\A a \in Addrs :
         Finalized(a) =>
           /\ Finalized(a)'
           /\ StoredTb(a)' = StoredTb(a)
           /\ getBB(a)' = getBB(a)
           /\ PostSkipCount(getBB(a))' = PostSkipCount(getBB(a))
           /\ StoredDangling(a)' = StoredDangling(a)]_vars

\* C1 witness: a capture of a finalized address, regeneration still enabled
C1_Witness ==
    /\ last.op = "capture" /\ last.kind = "hit"
    /\ Finalized(last.a)
    /\ m_regenerateBlocks

\* C2 (amended): a regeneration finalizes iff both representations are valid
\* and the post-skip counts of their last blocks are equal; with equal counts
\* and an exception call among one side's trailing 3 instructions it does not
\* finalize, while areBBsEqual itself returns true.
C2_FinalizeIffValidEqual ==
    Regenerated =>
       /\ Finalized(last.a) <=>
            (RepValid(last.oldF) /\ RepValid(last.newF)
             /\ PostSkipCount(last.oldF) = PostSkipCount(last.newF))
       /\ (PostSkipCount(last.oldF) = PostSkipCount(last.newF)
           /\ (TrailingExc(last.oldF) \/ TrailingExc(last.newF)))
          => (last.equal /\ ~Finalized(last.a))

\* C2 witness: equal counts, the new side ends in an exception call
C2_Witness ==
    /\ Regenerated
    /\ PostSkipCount(last.oldF) = PostSkipCount(last.newF)
    /\ RepValid(last.oldF) /\ TrailingExc(last.newF)
    /\ Len(last.oldF) = 2

\* C2 as stated: ... equal counts with an exception call in one side's trailing
\* 3 instructions gives equal = false and does not finalize.
C2_AsStated ==
    Regenerated =>
       /\ Finalized(last.a) <=>
            (RepValid(last.oldF) /\ RepValid(last.newF)
             /\ PostSkipCount(last.oldF) = PostSkipCount(last.newF))
       /\ (PostSkipCount(last.oldF) = PostSkipCount(last.newF)
           /\ (TrailingExc(last.oldF) \/ TrailingExc(last.newF)))
          => (~last.equal /\ ~Finalized(last.a))

\* C3: addSuccessor(p, a) returns false and leaves the successor set alone when
\* p = 0 or no block is captured for a; otherwise it returns true and the set
\* is the old one with (p, a) in it, once, also on a repeated insertion.
C3_AddSuccessor ==
    [][last'.op = "addSuccessor" =>
         IF last'.a = 0 \/ ~Captured(last'.b)
         THEN ~last'.ret /\ ti'.successors = ti.successors
         ELSE /\ last'.ret
              /\ ti'.successors = ti.successors \cup {<<last'.a, last'.b>>}
              /\ Cardinality({s \in ti'.successors : s = <<last'.a, last'.b>>}) = 1]_vars

\* C3 witness: the same pair inserted a second time
C3_Witness == last.op = "addSuccessor" /\ last.ret /\ last.kind = "again"

\* C4: a generator that yields nothing on the first visit makes capture return
\* false without a fatal error, and addSuccessor on an address with no captured
\* block returns false.
C4_CaptureFailureNotFatal ==
    /\ (last.op = "capture" /\ last.kind = "first" /\ last.newF = NoFunc)
         => (~failed /\ ~last.ret)
    /\ (last.op = "addSuccessor" /\ ~Captured(last.b)) => ~last.ret

\* C5 (amended): capture of a finalized address, or of a captured address with
\* regeneration disabled, returns false, asks the generator for nothing and
\* changes no per-address state.
C5_CacheHit ==
    [][(last'.op = "capture" /\ Captured(last'.a)
        /\ (Finalized(last'.a) \/ ~m_regenerateBlocks)) =>
         /\ last'.kind = "hit"
         /\ ~last'.ret
         /\ GeneratorState' = GeneratorState
         /\ \A a \in Addrs : PerAddress(a)' = PerAddress(a)]_vars

\* C5 witness: a capture of a finalized address
C5_Witness == last.op = "capture" /\ last.kind = "hit" /\ Finalized(last.a) /\ ~last.ret

\* C5 as stated: the cache hit returns true.
C5_AsStated ==
    [][(last'.op = "capture" /\ Captured(last'.a)
        /\ (Finalized(last'.a) \/ ~m_regenerateBlocks)) =>
         /\ last'.kind = "hit"
         /\ last'.ret
         /\ GeneratorState' = GeneratorState
         /\ \A a \in Addrs : PerAddress(a)' = PerAddress(a)]_vars

\* C6: stopRegenerating is one-way: regeneration is never enabled again, and
\* every later capture of a captured address takes the cache-hit path: nothing
\* is asked of the generator and representation, generation and finalized flag
\* stay as they are, finalized or not.
C6_StopIsOneWay ==
    [][/\ ~m_regenerateBlocks => ~m_regenerateBlocks'
       /\ (last'.op = "stopRegenerating") => ~m_regenerateBlocks'
       /\ (last'.op = "capture" /\ ~m_regenerateBlocks /\ Captured(last'.a)) =>
            /\ last'.kind = "hit"
            /\ GeneratorState' = GeneratorState
            /\ \A a \in Addrs : PerAddress(a)' = PerAddress(a)]_vars

\* C6 witness: after the switch, a capture of an address that is not finalized
C6_Witness ==
    /\ last.op = "capture" /\ last.kind = "hit"
    /\ ~m_regenerateBlocks
    /\ Captured(last.a) /\ ~Finalized(last.a)

\* C7: a return whose pop leaves a mismatching frame and an empty call stack
\* restores the call stack and records nothing: entryToCaller,
\* entryToReturnSite, topLevelEntries and pendingCallerPc are unchanged.
C7_MismatchEmptyRecordsNothing ==
    [][(last'.op = "return" /\ Len(m_callStack) = 1 /\ m_callStack[1] # last'.b) =>
         /\ m_callStack' = m_callStack
         /\ ti'.entryToCaller = ti.entryToCaller
         /\ ti'.entryToReturn = ti.entryToReturn
         /\ ti'.entries = ti.entries
         /\ m_callerPc' = m_callerPc]_vars

\* C8: a return with callee on top of the call stack pops that one frame, adds
\* caller to entryToCaller[callee] and executedBlockPc (not the returnSite
\* argument) to entryToReturnSite[callee], and sets pendingCallerPc to caller.
C8_NormalReturn ==
    [][(last'.op = "return" /\ m_callStack # <<>> /\ Top(m_callStack) = last'.b) =>
         /\ m_callStack' = Pop(m_callStack)
         /\ ti'.entryToCaller = ti.entryToCaller \cup {<<last'.b, last'.a>>}
         /\ ti'.entryToReturn = ti.entryToReturn \cup {<<last'.b, m_executedBBPc>>}
         /\ m_callerPc' = last'.a
         /\ m_executedBBPc' = m_executedBBPc]_vars

\* C8 witness: a normal return whose returnSite differs from the last executed
\* block and is not what entryToReturnSite received
C8_Witness ==
    /\ last.op = "return" /\ last.kind = "normal"
    /\ last.c # m_executedBBPc
    /\ <<last.b, m_executedBBPc>> \in ti.entryToReturn
    /\ <<last.b, last.c>> \notin ti.entryToReturn
    /\ m_callerPc = last.a

\* C9: between the fork that snapshots a path and the switch to it, block,
\* call, return and successor events on the live path leave the snapshots
\* alone, and after the switch the live TraceLog and PathState equal the state
\* at the fork.
C9_ForkRestoreRoundTrip ==
    [][/\ last'.op \in {"execute", "call", "return", "addSuccessor"} =>
            snapshotVars' = snapshotVars
       /\ (last'.op = "switch" /\ last'.kind = "restored" /\ last'.b \in freshForks) =>
            LiveState' = forkedAt[last'.b]]_vars

\* C10: after a fork every child id, already in the table or not, has a
\* snapshot equal to the live TraceLog, call stack, executedBlockPc and
\* pendingCallerPc at the fork, and the fork leaves the live state unchanged.
C10_ForkStoresCurrent ==
    [][last'.op = "fork" =>
         /\ \A id \in last'.pre :
              /\ Has(m_tracesByState', id) /\ m_tracesByState'[id] = ti
              /\ Has(m_stacksByState', id) /\ m_stacksByState'[id] = m_callStack
              /\ Has(m_execPcByState', id) /\ m_execPcByState'[id] = m_executedBBPc
              /\ Has(m_callerPcByState', id) /\ m_callerPcByState'[id] = m_callerPc
         /\ LiveState' = LiveState]_vars

\* the snapshot stored for a path id, as LiveState lays it out
SnapshotOf(id) ==
    [ti |-> m_tracesByState[id], callStack |-> m_stacksByState[id],
     executedBlockPc |-> m_execPcByState[id], pendingCallerPc |-> m_callerPcByState[id]]

\* C11: a switch from path A to path B first persists, under A's id, A's live
\* TraceLog as it was just before the switch, and only then replaces the live
\* TraceLog, call stack, executedBlockPc and pendingCallerPc by B's snapshot.
C11_SwitchPersistsThenRestores ==
    [][last'.op = "switch" =>
         /\ last'.a = curState
         /\ Has(traceFiles', last'.a) /\ traceFiles'[last'.a] = ti
         /\ last'.kind = "restored" =>
              /\ Has(m_tracesByState, last'.b)
              /\ ti' = SnapshotOf(last'.b).ti
              /\ m_callStack' = SnapshotOf(last'.b).callStack
              /\ m_executedBBPc' = SnapshotOf(last'.b).executedBlockPc
              /\ m_callerPc' = SnapshotOf(last'.b).pendingCallerPc]_vars

C11_Witness ==
    /\ last.op = "switch" /\ last.kind = "restored"
    /\ Has(traceFiles, last.a) /\ traceFiles[last.a] # ti
    /\ traceFiles[last.a].entries # <<0>>

\* C12: while the engine is live, topLevelEntries is non-empty and only its
\* last element may be 0.
C12_EntriesSentinel ==
    last.op # "teardown" =>
        /\ Len(ti.entries) > 0
        /\ \A i \in 1 .. Len(ti.entries) - 1 : ti.entries[i] # 0

C12_Witness ==
    /\ last.op = "switch" /\ last.kind = "restored"
    /\ Len(ti.entries) >= 2
    /\ sentinelActive(ti.entries)

\* C13: a forked path keeps its snapshot until it is switched to or the engine
\* is torn down, and teardown flushes every snapshot still stored, under its
\* path id, and releases it.
C13_TeardownFlushesSnapshots ==
    [][/\ last'.op \notin {"switch", "teardown"} =>
            \A id \in DOMAIN m_tracesByState :
                Has(m_tracesByState', id) /\ m_tracesByState'[id] = m_tracesByState[id]
       /\ last'.op = "teardown" =>
            /\ \A id \in DOMAIN m_tracesByState :
                   Has(traceFiles', id) /\ traceFiles'[id] = m_tracesByState[id]
            /\ m_tracesByState' = EmptyMap]_vars

\* C14: a switch to a path without a snapshot is fatal, and the live TraceLog,
\* call stack, executedBlockPc and pendingCallerPc are not replaced.
C14_SwitchWithoutSnapshotIsFatal ==
    [][(last'.op = "switch" /\ ~Has(m_tracesByState, last'.b)) =>
         /\ failed'
         /\ ti' = ti
         /\ liveLogVars' = liveLogVars
         /\ curState' = curState]_vars

C14_Witness ==
    /\ last.op = "switch" /\ last.kind = "fault"
    /\ failed
    /\ ~Has(m_tracesByState, last.b)
    /\ ti # InitTi

\* C15: a TraceLog record tagged with the live path id is written outside a
\* switch only by a capture that succeeds, the one with which the count of
\* successful captures reaches a multiple of the interval M; with M = 0 no
\* capture and no block execution writes one.
C15_CheckpointOnCaptures ==
    [][/\ traceFiles' # traceFiles =>
            /\ last'.op = "capture" /\ last'.ret
            /\ m_saveInterval # 0
            /\ Has(traceFiles', curState) /\ traceFiles'[curState] = ti'
       /\ (m_saveInterval = 0 /\ m_exportInterval = 0) =>
            (traceFiles' = traceFiles /\ moduleFiles' = moduleFiles)]_vars

\* C16: a return that arrives while the call stack is empty is not fatal: it
\* completes without a fault, the call stack stays empty and no call-graph
\* edge is recorded for it.
C16_UnderflowNonFatal ==
    [][(last'.op = "return" /\ m_callStack = <<>>) =>
         /\ ~failed'
         /\ m_callStack' = <<>>
         /\ ti'.entryToCaller = ti.entryToCaller
         /\ ti'.entryToReturn = ti.entryToReturn]_vars

\* C17: a return whose popped frame is not the callee, with a frame left below
\* that is not the callee either, pushes the popped frame back and aborts: the
\* call stack, entryToCaller, entryToReturnSite, topLevelEntries and
\* pendingCallerPc keep their values.
C17_MismatchAborts ==
    [][(/\ last'.op = "return"
        /\ Len(m_callStack) >= 2
        /\ Top(m_callStack) # last'.b
        /\ Top(Pop(m_callStack)) # last'.b) =>
         /\ m_callStack' = m_callStack
         /\ ti' = ti
         /\ m_callerPc' = m_callerPc
         /\ ~failed']_vars

C17_Witness ==
    /\ last.op = "return" /\ last.kind = "aborted"
    /\ Len(last.pre) >= 2
    /\ Top(last.pre) # last.b /\ Top(Pop(last.pre)) # last.b
    /\ m_callStack = last.pre

\* C18: a return whose popped frame is not the callee, while the frame below it
\* is, pops that frame too (two frames in all) and then records the return as
\* a normal one does: both edges, pendingCallerPc, and the sentinel rule.
C18_MismatchRecovers ==
    [][(/\ last'.op = "return"
        /\ Len(m_callStack) >= 2
        /\ Top(m_callStack) # last'.b
        /\ Top(Pop(m_callStack)) = last'.b) =>
         /\ m_callStack' = Pop(Pop(m_callStack))
         /\ ti'.entryToCaller = ti.entryToCaller \cup {<<last'.b, last'.a>>}
         /\ ti'.entryToReturn = ti.entryToReturn \cup {<<last'.b, m_executedBBPc>>}
         /\ m_callerPc' = last'.a
         /\ ti'.entries = IF last'.b = Top(ti.entries)
                          THEN Append(ti.entries, 0) ELSE ti.entries]_vars

C18_Witness ==
    /\ last.op = "return" /\ last.kind = "recovered"
    /\ Len(last.pre) = Len(m_callStack) + 2
    /\ <<last.b, last.a>> \in ti.entryToCaller
    /\ m_callerPc = last.a
    /\ Len(ti.entries) >= 2 /\ Top(ti.entries) = 0

\* C19: a return that proceeds (its popped frame, or the frame below it, is the
\* callee) appends a sentinel 0 to topLevelEntries exactly when the callee is
\* the last element; a return that aborts (the stack is empty after the pop,
\* or the frame below is not the callee either) appends none.
C19_SentinelOnlyOnProceed ==
    [][(last'.op = "return" /\ m_callStack # <<>>) =>
         IF \/ Top(m_callStack) = last'.b
            \/ Len(m_callStack) >= 2 /\ Top(Pop(m_callStack)) = last'.b
         THEN ti'.entries = IF last'.b = Top(ti.entries)
                            THEN Append(ti.entries, 0) ELSE ti.entries
         ELSE ti'.entries = ti.entries]_vars

\* C20: a block execution with the sentinel active replaces the last element
\* of topLevelEntries by the address, keeps its length, and pushes the address
\* on the call stack; with the sentinel inactive it changes neither.
C20_ExecuteEntry ==
    [][last'.op = "execute" =>
         IF Top(ti.entries) = 0
         THEN /\ Len(ti'.entries) = Len(ti.entries)
              /\ ti'.entries = [ti.entries EXCEPT ![Len(ti.entries)] = last'.a]
              /\ m_callStack' = Append(m_callStack, last'.a)
         ELSE /\ ti'.entries = ti.entries
              /\ m_callStack' = m_callStack]_vars

C20_Witness ==
    /\ last.op = "execute" /\ last.kind = "entry"
    /\ Len(ti.entries) >= 2
    /\ Top(ti.entries) = last.a
    /\ m_callStack = Append(last.pre, last.a)

\* the call stack of a block execution after its sentinel step
AfterSentinel(stack, entries, address) ==
    IF Top(entries) = 0 THEN Append(stack, address) ELSE stack

\* C21: a block execution adds the address to blocksByFrame[f], f being the top
\* of the call stack after the sentinel step, whenever that stack has a frame;
\* with an empty call stack blocksByFrame is left as it was.
C21_BlockAttribution ==
    [][last'.op = "execute" =>
         LET stack1 == AfterSentinel(m_callStack, ti.entries, last'.a) IN
         IF stack1 # <<>>
         THEN ti'.entryToTbs = ti.entryToTbs \cup {<<Top(stack1), last'.a>>}
         ELSE ti'.entryToTbs = ti.entryToTbs]_vars

C21_Witness ==
    /\ last.op = "execute" /\ last.kind = "block"
    /\ m_callStack = <<>>
    /\ \A f \in Addrs : <<f, last.a>> \notin ti.entryToTbs

\* C21 as stated: every block execution attributes the address to the frame on
\* top of the call stack, so the address is in blocksByFrame afterwards.
C21_AsStated ==
    [][last'.op = "execute" =>
         /\ m_callStack' # <<>>
         /\ <<Top(m_callStack'), last'.a>> \in ti'.entryToTbs]_vars

\* C22: a block execution with pendingCallerPc = c # 0 and a frame on the call
\* stack (after the sentinel step) adds (c, address) to callerToFollowUp and
\* clears pendingCallerPc; with pendingCallerPc = 0, or with an empty call
\* stack, callerToFollowUp and pendingCallerPc keep their values.
C22_FollowUp ==
    [][last'.op = "execute" =>
         LET stack1 == AfterSentinel(m_callStack, ti.entries, last'.a) IN
         IF m_callerPc # 0 /\ stack1 # <<>>
         THEN /\ ti'.callerToFollowUp = ti.callerToFollowUp \cup {<<m_callerPc, last'.a>>}
              /\ m_callerPc' = 0
         ELSE /\ ti'.callerToFollowUp = ti.callerToFollowUp
              /\ m_callerPc' = m_callerPc]_vars

C22_Witness ==
    /\ last.op = "execute" /\ last.kind = "block"
    /\ m_callStack = <<>>
    /\ m_callerPc # 0
    /\ ti.callerToFollowUp = {}

\* C22 as stated: whatever the call stack, a block execution with
\* pendingCallerPc = c # 0 records (c, address) and clears pendingCallerPc.
C22_AsStated ==
    [][(last'.op = "execute" /\ m_callerPc # 0) =>
         /\ <<m_callerPc, last'.a>> \in ti'.callerToFollowUp
         /\ m_callerPc' = 0]_vars

\* C23: a call whose source or destination is the monitored module pushes the
\* callee once and arms one return notification for (caller, callee); any
\* other call pushes and arms nothing; neither changes the TraceLog,
\* executedBlockPc or pendingCallerPc.
C23_CallFrameEffect ==
    [][last'.op = "call" =>
         /\ ti' = ti
         /\ m_executedBBPc' = m_executedBBPc
         /\ m_callerPc' = m_callerPc
         /\ IF last'.kind = "tracked"
            THEN /\ m_callStack' = Append(m_callStack, last'.b)
                 /\ armed'[curState][<<last'.a, last'.b>>] =
                        armed[curState][<<last'.a, last'.b>>] + 1
            ELSE /\ m_callStack' = m_callStack
                 /\ armed' = armed]_vars

\* C24: the first successful capture of an address stores generation 1 when
\* regeneration is enabled and 2 when it is disabled, and finalized = false.
C24_FirstCaptureCount ==
    [][(last'.op = "capture" /\ last'.kind = "first" /\ last'.ret) =>
         /\ Has(m_bbCounts', last'.a)
         /\ m_bbCounts'[last'.a] = IF m_regenerateBlocks THEN 1 ELSE 2
         /\ m_bbFinalized'[last'.a] = FALSE]_vars

C24_Witness ==
    /\ last.op = "capture" /\ last.kind = "first" /\ last.ret
    /\ ~m_regenerateBlocks
    /\ m_bbCounts[last.a] = 2
    /\ ~m_bbFinalized[last.a]

\* C24 as stated: the first successful capture stores generation 1 whether
\* regeneration is enabled or not.
C24_AsStated ==
    [][(last'.op = "capture" /\ last'.kind = "first" /\ last'.ret) =>
         m_bbCounts'[last'.a] = 1]_vars

\* C25: per address the generation never decreases; every regeneration raises
\* it by exactly one, whether it promotes the new representation, keeps the
\* old one or finalizes; a cache-hit capture leaves it unchanged.
C25_GenerationSteps ==
    [][/\ \A pc \in DOMAIN m_bbCounts :
            Has(m_bbCounts', pc) /\ m_bbCounts'[pc] >= m_bbCounts[pc]
       /\ (last'.op = "capture" /\ last'.kind \in {"promote", "keepOld", "finalize"}) =>
            m_bbCounts'[last'.a] = m_bbCounts[last'.a] + 1
       /\ (last'.op = "capture" /\ last'.kind = "hit") =>
            m_bbCounts' = m_bbCounts]_vars

C25_Witness ==
    /\ last.op = "capture" /\ last.kind = "finalize"
    /\ Finalized(last.a)
    /\ m_bbCounts[last.a] = 2

\* C25 as stated: a regeneration that finalizes leaves the generation
\* unchanged, and one that replaces the representation raises it by one.
C25_AsStated ==
    [][/\ (last'.op = "capture" /\ last'.kind = "finalize") =>
            m_bbCounts'[last'.a] = m_bbCounts[last'.a]
       /\ (last'.op = "capture" /\ last'.kind = "promote") =>
            m_bbCounts'[last'.a] = m_bbCounts[last'.a] + 1]_vars

\* C26: after a regenerating capture that promotes a valid new representation
\* (the old one invalid, or both valid with different counts), the
\* representation stored for the address (the one getBB and addSuccessor see)
\* is the new one and is not a released function, and finalized is false.
C26_PromoteStoresNew ==
    (last.op = "capture" /\ last.kind = "promote" /\ RepValid(last.newF)) =>
        /\ Captured(last.a)
        /\ getBB(last.a) = last.newF
        /\ ~StoredDangling(last.a)
        /\ ~Finalized(last.a)

\* C27: after a regenerating capture that found the old representation valid
\* and the new one invalid, the representation stored for the address is still
\* the old one, finalized is false, and the next capture regenerates again.
C27_KeepOldStoresOld ==
    (last.op = "capture" /\ last.kind = "keepOld") =>
        /\ Captured(last.a)
        /\ getBB(last.a) = last.oldF
        /\ ~Finalized(last.a)
        /\ m_regenerateBlocks /\ ~m_bbFinalized[last.a]

\* C28: visitedAddresses is local to a path: after a switch to a path that has
\* not been live since the fork that snapshotted it, the live visitedAddresses
\* is the set it was at that fork.
C28_VisitedPathLocal ==
    [][(last'.op = "switch" /\ last'.kind = "restored" /\ last'.b \in freshForks) =>
         m_modulePcs' = forkedAt[last'.b].visitedAddresses]_vars

\* map after is map before without the entries under ids a and b
WithoutEntries(before, after, a, b) ==
    /\ DOMAIN after = DOMAIN before \ {a, b}
    /\ \A id \in DOMAIN after : after[id] = before[id]

\* C29: right after a switch from A to B the snapshot table has no entry under
\* B and none under A, the entries under other ids are unchanged, and no
\* operation but a switch removes an entry, so a snapshot leaves the table,
\* and is released, once.
C29_SwitchReleases ==
    [][/\ (last'.op = "switch" /\ last'.kind = "restored") =>
            /\ WithoutEntries(m_tracesByState, m_tracesByState', last'.a, last'.b)
            /\ WithoutEntries(m_stacksByState, m_stacksByState', last'.a, last'.b)
            /\ WithoutEntries(m_execPcByState, m_execPcByState', last'.a, last'.b)
            /\ WithoutEntries(m_callerPcByState, m_callerPcByState', last'.a, last'.b)
       /\ ~(last'.op = "switch" /\ last'.kind = "restored") =>
            \A id \in DOMAIN m_tracesByState :
                Has(m_tracesByState', id) /\ m_tracesByState'[id] = m_tracesByState[id]]_vars

C29_Witness ==
    /\ last.op = "switch" /\ last.kind = "restored"
    /\ last.a \in last.pre /\ last.b \in last.pre
    /\ DOMAIN m_tracesByState = last.pre \ {last.a, last.b}
    /\ DOMAIN m_tracesByState # {}

\* C30: every pair (p, a) of the live successor set has p # 0 and a block
\* stored for a, in every reachable state, forks and switches included.
C30_SuccessorsCaptured ==
    \A e \in ti.successors :
        /\ e[1] # 0
        /\ Has(m_tbs, e[2])
        /\ getBB(e[2]) # NoFunc

C30_Witness ==
    /\ last.op = "switch" /\ last.kind = "restored"
    /\ ti.successors # {}
    /\ \A e \in ti.successors : Captured(e[2])

\* the call stack has a frame whenever the sentinel is inactive
FrameWhileTracking == Top(ti.entries) # 0 => m_callStack # <<>>

\* while the sentinel is inactive the frame of the current top-level entry is
\* on the call stack
EntryFrameOnStack ==
    Top(ti.entries) # 0 => \E i \in 1 .. Len(m_callStack) : m_callStack[i] = Top(ti.entries)

\* C31: while the sentinel is inactive the frame of the current top-level
\* entry is on the call stack, so the stack is non-empty, and every block
\* execution, call and return keeps it there, except a return that takes the
\* mismatch recovery and pops two frames: that one can pop the entry frame,
\* after which the call stack can be empty while the sentinel is inactive.
C31_FrameKeptButByRecovery ==
    [][(EntryFrameOnStack /\ ~(last'.op = "return" /\ last'.kind = "recovered")) =>
         (EntryFrameOnStack' /\ FrameWhileTracking')]_vars

C31_Witness ==
    /\ last.op = "return" /\ last.kind = "recovered"
    /\ m_callStack = <<>>
    /\ Top(ti.entries) # 0

\* C31 as stated: in every reachable state the call stack is non-empty
\* whenever the sentinel is inactive.
C31_AsStated == FrameWhileTracking

\* C32: a switch from A to B leaves no entry for A in the snapshot table;
\* entries come only from forks, each new one holding the live state at its
\* fork; so a later switch to A is fatal unless a fork stored an entry for A
\* after A was switched out, and what A resumes with is that fork's snapshot.
C32_SwitchOutKeepsNothing ==
    [][/\ (last'.op = "switch" /\ last'.kind = "restored") =>
            /\ ~Has(m_tracesByState', last'.a)
            /\ ti' = m_tracesByState[last'.b]
            /\ m_callStack' = m_stacksByState[last'.b]
       /\ last'.op # "fork" => DOMAIN m_tracesByState' \subseteq DOMAIN m_tracesByState
       /\ last'.op = "fork" =>
            \A id \in DOMAIN m_tracesByState' \ DOMAIN m_tracesByState :
                /\ m_tracesByState'[id] = ti
                /\ m_stacksByState'[id] = m_callStack
                /\ m_execPcByState'[id] = m_executedBBPc
                /\ m_callerPcByState'[id] = m_callerPc
       /\ (last'.op = "switch" /\ ~Has(m_tracesByState, last'.b)) => failed']_vars

\* a path resumes that was switched out before (its record was written then)
\* and was named by a fork afterwards: it resumes with the fork's snapshot
C32_Witness ==
    /\ last.op = "switch" /\ last.kind = "restored"
    /\ Has(traceFiles, last.b)
    /\ ti = forkedAt[last.b].ti
    /\ ti # traceFiles[last.b]
    /\ m_callStack # <<>>

Proceeded(l) == l.op = "return" /\ l.kind \in {"normal", "restoredEmpty", "recovered", "underflow"}

\* C34: only the most recent proceeding return is matched.  A proceeding
\* return with caller c makes c the one pending caller, replacing whichever
\* was pending, and adds no follow-up; the next onExecuteBlock(a) adds at most
\* the one follow-up (pending caller, a), and adds it exactly when the call
\* stack is non-empty and a caller is pending.
C34_OnlyLatestReturnMatched ==
    [][/\ Proceeded(last') =>
            /\ m_callerPc' = last'.a
            /\ ti'.callerToFollowUp = ti.callerToFollowUp
       /\ last'.op = "execute" =>
            ti'.callerToFollowUp =
                ti.callerToFollowUp \cup
                    (IF m_callStack' # <<>> /\ m_callerPc # 0
                     THEN {<<m_callerPc, last'.a>>} ELSE {})]_vars

\* a block has executed with a non-empty call stack and recorded a follow-up,
\* yet a caller of a proceeded return has no follow-up at all
C34_Witness ==
    /\ last.op = "execute"
    /\ m_callStack # <<>>
    /\ \E f \in ti.callerToFollowUp : f[2] = last.a
    /\ \E e \in ti.entryToCaller :
          e[2] # 0 /\ ~\E f \in ti.callerToFollowUp : f[1] = e[2]

\* C34 as stated: once a block has executed (with frames on the call stack),
\* the caller of every proceeded return has a follow-up
C34_AsStated ==
    (last.op = "execute" /\ m_callStack # <<>>) =>
        \A e \in ti.entryToCaller :
            e[2] # 0 => \E f \in ti.callerToFollowUp : f[1] = e[2]

\* the four snapshot maps hold the same path ids
SameIds ==
    /\ DOMAIN m_stacksByState = DOMAIN m_tracesByState
    /\ DOMAIN m_execPcByState = DOMAIN m_tracesByState
    /\ DOMAIN m_callerPcByState = DOMAIN m_tracesByState

\* C35: the four per-path snapshot maps hold the same set of path ids in every
\* reachable state, and the four entries under one id were stored together:
\* after any step, the entries of an id are the four it had before, or, the
\* id being new, the four values live at that step.
C35_SnapshotMapsAligned ==
    [][/\ SameIds'
       /\ \A id \in DOMAIN m_tracesByState' :
            IF Has(m_tracesByState, id)
            THEN SnapshotOf(id)' = SnapshotOf(id)
            ELSE SnapshotOf(id)' =
                     [ti |-> getCopy(ti), callStack |-> m_callStack,
                      executedBlockPc |-> m_executedBBPc,
                      pendingCallerPc |-> m_callerPc]]_vars

\* a switch has restored one path's snapshot while snapshots of other paths,
\* stored with a pending caller of 0, stay in the maps
C35_Witness ==
    /\ last.op = "switch" /\ last.kind = "restored"
    /\ m_tracesByState # <<>>
    /\ SameIds
    /\ \E id \in DOMAIN m_callerPcByState :
          m_callerPcByState[id] = 0 /\ m_execPcByState[id] # 0

====
